---- MODULE Spec2Model ----
(***************************************************************************)
(* Model of agnpy's gamma-gamma absorption engine (agnpy/absorption.py):   *)
(* the pair-production cross section sigma, the Absorption engine with its *)
(* three integration grids and their setters, and the optical depth tau    *)
(* for the three photon targets.                                           *)
(*                                                                         *)
(* Floating point numbers are modelled in fixed point: cosines, energies,  *)
(* the parameter s and the cross section carry the scale Q, angles are in  *)
(* degrees (2*pi = 360), lengths are whole model length units.  NaN is a   *)
(* distinguished value that every arithmetic operation propagates.         *)
(***************************************************************************)
EXTENDS Integers, Sequences, FiniteSets, TLC

VARIABLES blob, target, r, mu_size, mu, phi_size, phi, l_size, l,
          op, arg, ret, called, stdout, s_in, sigma_out,
          blr_vars, dt_vars, model, blob_vars, n_e_vars, parameters,
          previous

vars == <<blob, target, r, mu_size, mu, phi_size, phi, l_size, l,
          op, arg, ret, called, stdout, s_in, sigma_out,
          blr_vars, dt_vars, model, blob_vars, n_e_vars, parameters,
          previous>>

engine == <<blob, target, r, mu_size, mu, phi_size, phi, l_size, l>>

\* the objects of the gammapy wrappers: the attributes of the two targets
\* handed to get_blr_dt_parameters, the spectral model of the fit wrapper,
\* the attributes of the caller's blob and of its electron distribution, and
\* the list of parameters handed to the set_..._pars_ranges_scales functions
wrappers == <<blr_vars, dt_vars, model, blob_vars, n_e_vars, parameters>>

(***************************************************************************)
(* Bounds of the model.                                                    *)
(***************************************************************************)
\* largest sample count passed explicitly to a setter
MaxSize == 2
\* largest number of frequencies passed to tau
MaxNu == 2

\* longest list of targets handed to ExternalComptonSpectralModel
MaxTargets == 2

\* longest list of parameters handed to the set_..._pars_ranges_scales functions
MaxPars == 2
\* largest length of an array passed to sigma
MaxS == 3
\* largest number of integrand values a tau call may have to compute
MaxCells == 16

(***************************************************************************)
(* Fixed-point numbers.                                                    *)
(***************************************************************************)
\* scale of cosines, energies, s and cross sections (1.0 is Q)
Q == 100
\* scale of base-10 logarithms (1.0 is LQ)
LQ == 900
\* scale of x^-2 (1.0 is X2S)
X2S == 10000
\* numpy's nan
NaN == -2000000000

IsNaN(a) == a = NaN

Abs(a) == IF a >= 0 THEN a ELSE -a

\* division rounding toward zero, b # 0
Quot(a, b) == IF (a >= 0) = (b > 0) THEN Abs(a) \div Abs(b)
              ELSE -(Abs(a) \div Abs(b))

Add(a, b) == IF IsNaN(a) \/ IsNaN(b) THEN NaN ELSE a + b
Sub(a, b) == IF IsNaN(a) \/ IsNaN(b) THEN NaN ELSE a - b
\* product of two numbers, the second of scale sc
Mul(a, b, sc) == IF IsNaN(a) \/ IsNaN(b) THEN NaN ELSE Quot(a * b, sc)

RECURSIVE SqrtSearch(_, _, _)
SqrtSearch(n, lo, hi) ==
  IF lo >= hi THEN lo
  ELSE LET mid == (lo + hi + 1) \div 2
       IN IF mid * mid <= n THEN SqrtSearch(n, mid, hi)
          ELSE SqrtSearch(n, lo, mid - 1)

\* np.sqrt on a number n >= 0 given with the squared scale: floor(sqrt(n));
\* nan for a negative number
Sqrt(n) == IF IsNaN(n) \/ n < 0 THEN NaN ELSE SqrtSearch(n, 0, 46340)

RECURSIVE Pow(_, _)
Pow(b, e) == IF e <= 0 THEN 1 ELSE b * Pow(b, e - 1)

RECURSIVE Digits(_)
\* the decade of x >= 1: the n with 10^n <= x < 10^(n+1)
Digits(x) == IF x < 10 THEN 0 ELSE 1 + Digits(x \div 10)

\* np.log10 of a length x >= 1, scale LQ, linear within each decade
Log10(x) == LET n == Digits(x)
            IN n * LQ + Quot((x - Pow(10, n)) * LQ, 9 * Pow(10, n))

\* np.power(10, y) for y >= 0 of scale LQ, linear within each decade
Pow10(y) == LET n == y \div LQ
                f == y % LQ
            IN Pow(10, n) + Quot(9 * Pow(10, n) * f, LQ)

\* np.cos of an angle in degrees, scale Q (Bhaskara's approximation)
CosQuadrant(x) == Quot(Q * (32400 - 4 * x * x), 32400 + x * x)
Cos(x) == LET y == x % 360
              z == IF y > 180 THEN 360 - y ELSE y
          IN IF z > 90 THEN -CosQuadrant(180 - z) ELSE CosQuadrant(z)

\* np.log of x > 0 of scale Q, as 2 * atanh((x - 1) / (x + 1))
Ln(x) == LET t == Quot((x - Q) * Q, x + Q)
             t2 == Quot(t * t, Q)
             t3 == Quot(t * t2, Q)
             t5 == Quot(t3 * t2, Q)
             t7 == Quot(t5 * t2, Q)
         IN 2 * (t + Quot(t3, 3) + Quot(t5, 5) + Quot(t7, 7))

(***************************************************************************)
(* Arrays are sequences.                                                   *)
(***************************************************************************)
\* np.linspace(start, stop, num), num >= 0
linspace(start, stop, num) ==
  LET dv == num - 1
      delta == stop - start
      step == IF dv > 0 THEN Quot(delta, dv) ELSE 0
      y(k) == IF dv > 0
              THEN IF step = 0 THEN Quot(k * delta, dv) ELSE k * step
              ELSE k * delta
  IN [k \in 1..num |->
        IF num > 1 /\ k = num THEN stop ELSE y(k - 1) + start]

\* np.logspace(start, stop, num)
logspace(start, stop, num) ==
  LET y == linspace(start, stop, num)
  IN [k \in 1..num |-> Pow10(y[k])]

\* a numpy array is built once: all its elements are computed when it is made
np_array(f) == IF f = <<>> THEN f ELSE f

RECURSIVE np_sum(_, _, _)
\* np.sum of f[lo..hi], added up pairwise
np_sum(f, lo, hi) ==
  IF lo > hi THEN 0
  ELSE IF lo = hi THEN f[lo]
  ELSE LET mid == (lo + hi) \div 2
       IN Add(np_sum(f, lo, mid), np_sum(f, mid + 1, hi))

\* np.trapz(y, x) along the axis of x, whose scale is sc:
\* sum(diff(x) * (y[1:] + y[:-1]) / 2)
trapz(y, x, sc) ==
  LET n == Len(x)
      term == [k \in 1..(n - 1) |->
                 Mul(x[k + 1] - x[k], Mul(Add(y[k + 1], y[k]), 1, 2), sc)]
  IN np_sum(term, 1, n - 1)

(***************************************************************************)
(* Units and physical constants, in model units.                           *)
(***************************************************************************)
\* Planck constant h.cgs
h_cgs == 1
\* electron rest energy
mec2 == 2
\* m_e * c^3
mec3 == 1
\* Thomson cross section
sigma_T == 16
\* (4 pi)^2
FourPiSq == 158
\* degrees in one radian: the scale of an angle
Rad == 57
\* np.pi
Pi == 180
\* parsecs in one model length unit
PcPerLen == 100
\* upper end of the path-length grid, in parsec
l_max_pc == 3000
\* default sample counts
mu_size_default == 100
phi_size_default == 50
l_size_default == 10

\* Quantity.to_value("cm") of a length given in parsec
to_cm(pc) == Quot(pc, PcPerLen)

\* nu.to("", equivalencies=epsilon_equivalency): h nu / (m_e c^2), scale Q
epsilon_equivalency(nu) == [i \in 1..Len(nu) |-> Quot(h_cgs * nu[i] * Q, mec2)]

(***************************************************************************)
(* The pair-production cross section, Eq. 17 of Dermer 2009.               *)
(***************************************************************************)
\* np.sqrt(1 - np.power(s, -1)): nan for 0 <= s < 1 (and for s = 0, where
\* s^-1 is inf)
beta_cm(s) == IF IsNaN(s) \/ s = 0 THEN NaN
              ELSE Sqrt(Q * Q - Quot(Q * Q * Q, s))

\* np.log((1 + beta) / (1 - beta)): nan for beta > 1; at beta = 1 it is inf,
\* which the zero prefactor turns into nan
log_ratio(b) == IF IsNaN(b) \/ b >= Q THEN NaN
                ELSE Ln(Quot((Q + b) * Q, Q - b))

\* the value computed for one element before the masked assignment
sigma_value(s) ==
  LET b == beta_cm(s)
      b2 == Mul(b, b, Q)
      b4 == Mul(b2, b2, Q)
      prefactor == Mul(Quot(3 * sigma_T, 16), Sub(Q, b2), 1)
      term1 == Mul(Sub(3 * Q, b4), log_ratio(b), Q)
      term2 == Mul(Mul(-2, b, 1), Sub(2 * Q, b2), Q)
  IN Mul(prefactor, Add(term1, term2), Q)

\* the comparison s < 1 of numpy: False for nan
less_than_one(s) == ~IsNaN(s) /\ s < Q

\* sigma without the assignment values[s < 1] = 0
sigma_unmasked(s) == [k \in DOMAIN s |-> sigma_value(s[k])]

\* sigma(s): s is an array of any shape (a function of its indices)
sigma(s) ==
  LET values == [k \in DOMAIN s |-> sigma_value(s[k])]
      mask == [k \in DOMAIN s |-> less_than_one(s[k])]
  IN [k \in DOMAIN s |-> IF mask[k] THEN 0 ELSE values[k]]

(***************************************************************************)
(* Geometry helpers of agnpy.compton.                                      *)
(***************************************************************************)
\* cos(psi) = mu1 mu2 + sqrt(1 - mu1^2) sqrt(1 - mu2^2) cos(phi)
cos_psi(mu_s, mu_, phi_) ==
  Add(Mul(mu_, mu_s, Q),
      Mul(Mul(Sqrt(Sub(Q * Q, Mul(mu_, mu_, 1))),
              Sqrt(Sub(Q * Q, Mul(mu_s, mu_s, 1))), Q),
          Cos(phi_), Q))

\* x = sqrt(R^2 + l^2 - 2 R l mu), scale Q
x_re_shell(mu_, R, l_) ==
  Sqrt(R * R * Q * Q + l_ * l_ * Q * Q - 2 * R * l_ * mu_ * Q)

\* x = sqrt(R^2 + l^2), scale Q
x_re_ring(R, l_) == Sqrt(R * R * Q * Q + l_ * l_ * Q * Q)

\* mu* = (l - R mu) / x, scale Q; 0 / 0 is nan
mu_star(mu_, R, l_) ==
  LET x == x_re_shell(mu_, R, l_)
  IN IF IsNaN(x) \/ x = 0 THEN NaN ELSE Quot((l_ * Q - R * mu_) * Q, x)

\* np.power(x, -2) of a length x of scale Q, scale X2S; at x = 0 it is inf,
\* which every use multiplies with a nan
inv_square(x) == IF IsNaN(x) \/ x = 0 THEN NaN ELSE Quot(X2S * Q * Q, x * x)

(***************************************************************************)
(* The objects the engine is constructed with.                             *)
(***************************************************************************)
\* the emission region: redshift and cosine of the viewing angle (scale Q)
Blobs == {[z |-> 1, mu_s |-> 60]}

SSDisk == "SSDisk"
SphericalShellBLR == "SphericalShellBLR"
RingDustTorus == "RingDustTorus"
PointSourceBehindJet == "PointSourceBehindJet"

\* luminosity fractions xi_line and xi_dt (scale Q) the targets are built with
XiValues == {10, 20}

ShellTarget(xi) == [kind |-> SphericalShellBLR, L_disk |-> 790, xi_line |-> xi,
                    epsilon_line |-> 50, R_line |-> 3]
RingTarget(xi) == [kind |-> RingDustTorus, L_disk |-> 790, xi_dt |-> xi,
                   epsilon_dt |-> 50, R_dt |-> 3]
DiskTarget == [kind |-> SSDisk, L_disk |-> 790, eta |-> 10, R_g |-> 1,
               R_in |-> 6, R_out |-> 30, epsilon_disk |-> 50, mu_size |-> 2]
OtherTarget == [kind |-> PointSourceBehindJet, L_0 |-> 790, epsilon_0 |-> 50]

Targets == {DiskTarget, ShellTarget(10), RingTarget(10), OtherTarget}

\* distances of the blob from the black hole, in model length units: inside
\* the shell, on the shell, and beyond the upper end of the path-length grid
RValues == {1, 3, 40}

\* the (target, r) pairs an engine is constructed with
Configs == {<<DiskTarget, 1>>, <<OtherTarget, 1>>,
            <<RingTarget(10), 1>>, <<RingTarget(10), 40>>}
           \cup {<<ShellTarget(10), d>> : d \in RValues}

\* observed frequencies: below and above the pair-production threshold
NuValues == {1, 16}

RECURSIVE SeqsUpTo(_, _)
\* the non-empty arrays over S of length at most n
SeqsUpTo(S, n) ==
  IF n <= 0 THEN {}
  ELSE SeqsUpTo(S, n - 1) \cup [1..n -> S]

(***************************************************************************)
(* Absorption: the grids.                                                  *)
(***************************************************************************)
\* a setter's parameter: args is <<>> (the default is used) or <<size>>
mu_size_param(args) == IF args = <<>> THEN mu_size_default ELSE args[1]
phi_size_param(args) == IF args = <<>> THEN phi_size_default ELSE args[1]
\* set_l with the default count of set_mu
l_size_param_of_mu(args) == IF args = <<>> THEN mu_size_default ELSE args[1]

l_size_param(args) == IF args = <<>> THEN l_size_default ELSE args[1]

\* np.linspace(-1, 1, mu_size, endpoint=False)
mu_grid_without_endpoint(size) == SubSeq(linspace(-1 * Q, 1 * Q, size + 1), 1, size)

\* np.linspace(-1, 1, mu_size)
mu_grid(size) == linspace(-1 * Q, 1 * Q, size)

\* np.linspace(0, 2 * np.pi, phi_size)
phi_grid(size) == linspace(0, 2 * Pi, size)

\* np.logspace(log10(r in cm), log10(l_max in cm), l_size)
l_grid(r_, size) == logspace(Log10(r_), Log10(to_cm(l_max_pc)), size)

None == [kind |-> "None", val |-> <<>>]
Raised(e) == [kind |-> e, val |-> <<>>]
Array(v) == [kind |-> "array", val |-> v]

NoCall == /\ called' = <<>>
          /\ stdout' = 0

\* no tau call is remembered
NoTau == [nu |-> <<>>, mu |-> <<>>, phi |-> <<>>, l |-> <<>>, ret |-> None]

\* no spectral model of the fit wrapper exists
NoModel == [targets |-> <<>>, ssa |-> FALSE, pars |-> <<>>]

\* Absorption(blob, target, r)
Init ==
  /\ blob \in Blobs
  /\ \E c \in Configs : target = c[1] /\ r = c[2]
  /\ mu_size = mu_size_param(<<>>)
  /\ mu = mu_grid(mu_size)
  /\ phi_size = phi_size_param(<<>>)
  /\ phi = phi_grid(phi_size)
  /\ l_size = l_size_param(<<>>)
  /\ l = l_grid(r, l_size)
  /\ op = "__init__"
  /\ arg = <<>>
  /\ ret = None
  /\ called = <<>>
  /\ stdout = 0
  /\ s_in = <<>>
  /\ sigma_out = <<>>
  /\ blr_vars = <<>>
  /\ dt_vars = <<>>
  /\ model = NoModel
  /\ blob_vars = <<>>
  /\ n_e_vars = <<>>
  /\ parameters = <<>>
  /\ previous = NoTau

\* the argument lists a setter is called with: none, or one sample count
SetterArgs == {<<>>} \cup {<<n>> : n \in 0..MaxSize}

\* the same with a negative count, for which np.linspace raises ValueError
AnyArgs == SetterArgs \cup {<<-1>>}

set_mu(Args) ==
  \E args \in Args :
    /\ mu_size' = mu_size_param(args)
    /\ IF mu_size' < 0
       THEN mu' = mu /\ ret' = Raised("ValueError")
       ELSE mu' = mu_grid(mu_size') /\ ret' = None
    /\ op' = "set_mu"
    /\ arg' = args
    /\ NoCall
    /\ UNCHANGED <<blob, target, r, phi_size, phi, l_size, l, s_in, sigma_out, wrappers, previous>>

\* set_phi storing its count in mu_size
set_phi_writing_mu_size(Args) ==
  \E args \in Args :
    /\ mu_size' = phi_size_param(args)
    /\ IF mu_size' < 0
       THEN phi' = phi /\ ret' = Raised("ValueError")
       ELSE phi' = phi_grid(mu_size') /\ ret' = None
    /\ op' = "set_phi"
    /\ arg' = args
    /\ NoCall
    /\ UNCHANGED <<blob, target, r, phi_size, mu, l_size, l, s_in, sigma_out, wrappers, previous>>

set_phi(Args) ==
  \E args \in Args :
    /\ phi_size' = phi_size_param(args)
    /\ IF phi_size' < 0
       THEN phi' = phi /\ ret' = Raised("ValueError")
       ELSE phi' = phi_grid(phi_size') /\ ret' = None
    /\ op' = "set_phi"
    /\ arg' = args
    /\ NoCall
    /\ UNCHANGED <<blob, target, r, mu_size, mu, l_size, l, s_in, sigma_out, wrappers, previous>>

\* set_l storing the count without building the grid
set_l_size_only(Args) ==
  \E args \in Args :
    /\ l_size' = l_size_param(args)
    /\ ret' = None
    /\ op' = "set_l"
    /\ arg' = args
    /\ NoCall
    /\ UNCHANGED <<blob, target, r, mu_size, mu, phi_size, phi, l, s_in, sigma_out, wrappers, previous>>

set_l(Args) ==
  \E args \in Args :
    /\ l_size' = l_size_param(args)
    /\ IF l_size' < 0
       THEN l' = l /\ ret' = Raised("ValueError")
       ELSE l' = l_grid(r, l_size') /\ ret' = None
    /\ op' = "set_l"
    /\ arg' = args
    /\ NoCall
    /\ UNCHANGED <<blob, target, r, mu_size, mu, phi_size, phi, s_in, sigma_out, wrappers, previous>>

\* the grids and their sizes as one record
Grids ==
  [mu_size |-> mu_size, mu |-> mu, phi_size |-> phi_size, phi |-> phi,
   l_size |-> l_size, l |-> l]

\* the grids a setter call leaves when it starts from the grids g: the size
\* is stored first, and the grid is replaced unless the array function raises
after_set_mu(g, args) ==
  LET size == mu_size_param(args)
  IN [g EXCEPT !.mu_size = size,
               !.mu = IF size < 0 THEN g.mu ELSE mu_grid(size)]

after_set_phi(g, args) ==
  LET size == phi_size_param(args)
  IN [g EXCEPT !.phi_size = size,
               !.phi = IF size < 0 THEN g.phi ELSE phi_grid(size)]

after_set_l(g, args) ==
  LET size == l_size_param(args)
  IN [g EXCEPT !.l_size = size,
               !.l = IF size < 0 THEN g.l ELSE l_grid(r, size)]

(***************************************************************************)
(* Absorption: the optical depth.                                          *)
(***************************************************************************)
\* the dimensionless energy in the frame of the black hole (scale Q): the
\* conversion makes a new array, which is then multiplied in place
epsilon_1(nu) ==
  LET e == epsilon_equivalency(nu)
  IN [i \in 1..Len(nu) |-> e[i] * (1 + blob.z)]

\* what a routine hands back: the value returned or the exception raised,
\* the integrand routines that ran, the number of lines printed
Outcome(rt, routines, lines) ==
  [ret |-> rt, called |-> routines, stdout |-> lines]

\* the prefactor of the shell routine with xi_line left out
prefactor_shell_blr_without_xi(tg) ==
  Quot(Q * tg.L_disk * Q, FourPiSq * tg.epsilon_line * mec3)

\* prefactor_num / prefactor_denum of the shell routine (scale Q)
prefactor_shell_blr(tg) ==
  LET prefactor_num == tg.xi_line * tg.L_disk
      prefactor_denum == FourPiSq * tg.epsilon_line * mec3
  IN Quot(prefactor_num * Q, prefactor_denum)

\* the broadcast integrand of the shell routine, with self.target as tg:
\* axis 0 is mu, axis 1 phi, axis 2 l, axis 3 epsilon_1
integrand_shell_blr(tg, nu) ==
  LET eps1 == epsilon_1(nu)
      M == 1..Len(mu)
      P == 1..Len(phi)
      L == 1..Len(l)
      E == 1..Len(eps1)
      _x == np_array([m \in M, j \in L |-> x_re_shell(mu[m], tg.R_line, l[j])])
      _mu_star == np_array([m \in M, j \in L |-> mu_star(mu[m], tg.R_line, l[j])])
      _cos_psi == np_array([m \in M, p \in P, j \in L |->
                     cos_psi(blob.mu_s, _mu_star[m, j], phi[p])])
      _s == np_array([m \in M, p \in P, j \in L, i \in E |->
               Mul(Mul(Mul(eps1[i], tg.epsilon_line, Q),
                       Sub(Q, _cos_psi[m, p, j]), Q), 1, 2)])
      _sigma == np_array(sigma(_s))
  IN np_array([m \in M, p \in P, j \in L, i \in E |->
                 Mul(Mul(Sub(Q, _cos_psi[m, p, j]),
                         inv_square(_x[m, j]), Q),
                     _sigma[m, p, j, i], Q)])

\* the integrals of the shell routine with the last np.trapz taken without
\* its grid (unit spacing)
integral_shell_blr_without_l(_integrand, n) ==
  LET M == 1..Len(mu)
      P == 1..Len(phi)
      L == 1..Len(l)
      E == 1..n
      integral_mu == np_array([p \in P, j \in L, i \in E |->
                        trapz([m \in M |-> _integrand[m, p, j, i]], mu, Q)])
      integral_phi == np_array([j \in L, i \in E |->
                         trapz([p \in P |-> integral_mu[p, j, i]], phi, Rad)])
  IN np_array([i \in E |->
                 trapz([j \in L |-> integral_phi[j, i]],
                       [j \in L |-> j], 1)])

\* the three integrals of the shell routine over an integrand with n
\* energies: np.trapz over mu, then phi, then l, each along axis 0
integral_shell_blr(_integrand, n) ==
  LET M == 1..Len(mu)
      P == 1..Len(phi)
      L == 1..Len(l)
      E == 1..n
      integral_mu == np_array([p \in P, j \in L, i \in E |->
                        trapz([m \in M |-> _integrand[m, p, j, i]], mu, Q)])
      integral_phi == np_array([j \in L, i \in E |->
                         trapz([p \in P |-> integral_mu[p, j, i]], phi, Rad)])
  IN np_array([i \in E |->
                 trapz([j \in L |-> integral_phi[j, i]], l, 1)])

\* the routine of the engine, with self.target as tg
opacity_shell_blr(tg, nu) ==
  LET E == 1..Len(nu)
      integral == integral_shell_blr(integrand_shell_blr(tg, nu), Len(nu))
      tau_ == [i \in E |-> Mul(prefactor_shell_blr(tg), integral[i], Q)]
  IN Outcome(Array(tau_), <<"_opacity_shell_blr">>, 0)

\* prefactor_num / prefactor_denum of the ring routine (scale Q)
prefactor_ring_torus(tg) ==
  LET prefactor_num == tg.xi_dt * tg.L_disk
      prefactor_denum == FourPiSq * tg.epsilon_dt * mec3
  IN Quot(prefactor_num * Q, prefactor_denum)

\* the broadcast integrand of the ring routine, with self.target as tg:
\* axis 0 is phi, axis 1 l, axis 2 epsilon_1
integrand_ring_torus(tg, nu) ==
  LET eps1 == epsilon_1(nu)
      P == 1..Len(phi)
      L == 1..Len(l)
      E == 1..Len(eps1)
      _x == np_array([j \in L |-> x_re_ring(tg.R_dt, l[j])])
      _mu == np_array([j \in L |-> Quot(l[j] * Q * Q, _x[j])])
      _cos_psi == np_array([p \in P, j \in L |-> cos_psi(blob.mu_s, _mu[j], phi[p])])
      _s == np_array([p \in P, j \in L, i \in E |->
               Mul(Mul(Mul(eps1[i], tg.epsilon_dt, Q),
                       Sub(Q, _cos_psi[p, j]), Q), 1, 2)])
      _sigma == np_array(sigma(_s))
  IN np_array([p \in P, j \in L, i \in E |->
                 Mul(Mul(Sub(Q, _cos_psi[p, j]), inv_square(_x[j]), Q),
                     _sigma[p, j, i], Q)])

\* the two integrals of the ring routine over an integrand with n energies:
\* np.trapz over phi, then l, each along axis 0
integral_ring_torus(_integrand, n) ==
  LET P == 1..Len(phi)
      L == 1..Len(l)
      E == 1..n
      integral_phi == np_array([j \in L, i \in E |->
                         trapz([p \in P |-> _integrand[p, j, i]], phi, Rad)])
  IN np_array([i \in E |->
                 trapz([j \in L |-> integral_phi[j, i]], l, 1)])

\* the routine of the engine, with self.target as tg
opacity_ring_torus(tg, nu) ==
  LET E == 1..Len(nu)
      integral == integral_ring_torus(integrand_ring_torus(tg, nu), Len(nu))
      tau_ == [i \in E |-> Mul(prefactor_ring_torus(tg), integral[i], Q)]
  IN Outcome(Array(tau_), <<"_opacity_ring_torus">>, 0)

(***************************************************************************)
(* The disk target's helpers (agnpy.targets.SSDisk).                       *)
(***************************************************************************)
\* the cosines under which the disk, between R_in and R_out, is seen from
\* the height l_tilde: linspace(mu_min, mu_max, size), scale Q
mu_from_r_tilde(l_tilde) ==
  LET mu_min == Quot(l_tilde * Q * Q, x_re_ring(target.R_out, l_tilde))
      mu_max == Quot(l_tilde * Q * Q, x_re_ring(target.R_in, l_tilde))
  IN linspace(mu_min, mu_max, target.mu_size)

\* mu^-2 - 1, scale Q; a division by zero gives inf, here nan
inv_square_minus_one(mu_) ==
  IF IsNaN(mu_) \/ mu_ = 0 THEN NaN ELSE Quot(Q * Q * Q, mu_ * mu_) - Q

\* the radius of the disk seen under the cosine mu from the height l_tilde,
\* in units of R_g, scale Q
R_tilde(mu_, l_tilde) ==
  Mul(l_tilde, Sqrt(Mul(inv_square_minus_one(mu_), Q, 1)), 1)

\* the energy of the photons emitted at that radius, falling with the radius
epsilon_mu(mu_, l_tilde) ==
  LET R == R_tilde(mu_, l_tilde)
  IN IF IsNaN(R) \/ R = 0 THEN NaN
     ELSE Quot(target.epsilon_disk * target.R_in * Q, R)

\* the radial dependence of the disk emissivity, 1 - sqrt(R_in / R)
phi_disk_mu(mu_, l_tilde) ==
  LET R == R_tilde(mu_, l_tilde)
  IN IF IsNaN(R) \/ R = 0 THEN NaN
     ELSE Sub(Q, Sqrt(Quot(target.R_in * Q * Q * Q, R)))

(***************************************************************************)
(* Absorption: the optical depth of the disk.                              *)
(***************************************************************************)
\* the body of the inner loop up to the assignment: the integral over mu and
\* phi for one energy and one path length, in cm-1 (scale X2S * Q)
disk_integral_phi(_epsilon_1, _l) ==
  LET l_tilde == Quot(_l, target.R_g)
      mu_ == mu_from_r_tilde(l_tilde)
      M == 1..Len(mu_)
      P == 1..Len(phi)
      _epsilon == np_array([m \in M |-> epsilon_mu(mu_[m], l_tilde)])
      _phi_disk_mu == np_array([m \in M |-> phi_disk_mu(mu_[m], l_tilde)])
      _cos_psi == np_array([m \in M, p \in P |->
                              cos_psi(blob.mu_s, mu_[m], phi[p])])
      _s == np_array([m \in M, p \in P |->
                        Mul(Mul(Mul(_epsilon_1, _epsilon[m], Q),
                                Sub(Q, _cos_psi[m, p]), Q), 1, 2)])
      tt == [m \in M |-> inv_square_minus_one(mu_[m])]
      denom == np_array([m \in M |->
                 Mul(Mul(Mul(_epsilon[m], _l * _l * _l, 1), mu_[m], Q),
                     Mul(tt[m], Sqrt(Mul(tt[m], Q, 1)), Q), Q)])
      _integrand_mu == np_array([m \in M |->
                         IF IsNaN(denom[m]) \/ IsNaN(_phi_disk_mu[m])
                            \/ denom[m] = 0
                         THEN NaN
                         ELSE Quot(_phi_disk_mu[m] * X2S * Q, denom[m])])
      _sigma == np_array(sigma(_s))
      _integrand == np_array([m \in M, p \in P |->
                      Mul(Mul(_integrand_mu[m], Sub(Q, _cos_psi[m, p]), Q),
                          _sigma[m, p], Q)])
      integral_mu == np_array([p \in P |->
                       trapz([m \in M |-> _integrand[m, p]], mu_, Q)])
  IN trapz(integral_mu, phi, Rad)

\* the state of the loops: the exception raised (if any), the array being
\* filled and the number of lines printed so far
LoopState(e, a, lines) == [err |-> e, array |-> a, stdout |-> lines]

RECURSIVE disk_inner_loop(_, _, _, _, _)
\* for j, _l in enumerate(self.l): four prints, the integrals over mu and
\* phi (cells[i, j]), then integrand_l[i] = ...
disk_inner_loop(i, j, integrand_l, cells, lines) ==
  IF j > Len(l) THEN LoopState("", integrand_l, lines)
  ELSE IF i > Len(integrand_l)
       THEN LoopState("IndexError", integrand_l, lines + 4)
       ELSE disk_inner_loop(i, j + 1, [integrand_l EXCEPT ![i] = cells[i, j]],
                            cells, lines + 4)

RECURSIVE disk_outer_loop(_, _, _, _, _, _)
\* for i, _epsilon_1 in enumerate(epsilon_1): a new integrand_l, the inner
\* loop, then integral[j] = ... with the j the inner loop ended with
disk_outer_loop(i, n, integral, empty_l, cells, lines) ==
  IF i > n THEN LoopState("", integral, lines)
  ELSE LET inner == disk_inner_loop(i, 1, empty_l, cells, lines)
       IN IF inner.err # "" THEN LoopState(inner.err, integral, inner.stdout)
          ELSE IF Len(l) = 0
               THEN LoopState("UnboundLocalError", integral, inner.stdout)
          ELSE IF Len(l) > Len(integral)
               THEN LoopState("IndexError", integral, inner.stdout)
          ELSE disk_outer_loop(
                 i + 1, n,
                 [integral EXCEPT ![Len(l)] = trapz(inner.array, l, 1)],
                 empty_l, cells, inner.stdout)

\* what np.empty may hand out for the elements it does not initialise
Garbage == {-1000, 1000}

\* np.empty(n): a block of memory that was never written; the model takes
\* the blocks that hold one value throughout
np_empty(n) == {[k \in 1..n |-> g] : g \in Garbage}

\* the contents of the two arrays np.empty makes: integral (one element per
\* frequency) and integrand_l (one per path length; of the arrays made in
\* the outer loop only the last one reaches the result)
Uninitialised(n) ==
  IF target.kind = SSDisk
  THEN [integral : np_empty(n), integrand_l : np_empty(Len(l))]
  ELSE {[integral |-> <<>>, integrand_l |-> <<>>]}

\* the integrals over mu and phi the inner loop computes, for every energy
\* and path length; they do not depend on what np.empty hands out
disk_cells(nu) ==
  LET eps1 == epsilon_1(nu)
  IN np_array([i \in 1..Len(eps1), j \in 1..Len(l) |->
                 disk_integral_phi(eps1[i], l[j])])

\* prefactor_num / prefactor_denum of the disk routine (scale Q)
prefactor_disk ==
  LET prefactor_num == 3 * target.L_disk * target.R_g
      prefactor_denum == Quot(16 * Pi * target.eta * mec3, Rad)
  IN Quot(prefactor_num * Q, prefactor_denum)

opacity_disk(nu, empty, cells) ==
  LET eps1 == epsilon_1(nu)
      loops == disk_outer_loop(1, Len(eps1), empty.integral,
                               empty.integrand_l, cells, 0)
      tau_ == [i \in 1..Len(eps1) |->
                 Mul(prefactor_disk, loops.array[i], Q)]
  IN IF loops.err # ""
     THEN Outcome(Raised(loops.err), <<"_opacity_disk">>, loops.stdout)
     ELSE Outcome(Array(tau_), <<"_opacity_disk">>, loops.stdout)

\* the isinstance chain of tau without its last test
tau_call_without_ring(nu, empty, cells) ==
  IF target.kind = SSDisk THEN opacity_disk(nu, empty, cells)
  ELSE IF target.kind = SphericalShellBLR THEN opacity_shell_blr(target, nu)
  ELSE Outcome(None, <<>>, 0)

\* the isinstance chain of tau; falling off its end returns None
tau_call(nu, empty, cells) ==
  IF target.kind = SSDisk THEN opacity_disk(nu, empty, cells)
  ELSE IF target.kind = SphericalShellBLR THEN opacity_shell_blr(target, nu)
  ELSE IF target.kind = RingDustTorus THEN opacity_ring_torus(target, nu)
  ELSE Outcome(None, <<>>, 0)

\* an axis of a broadcast array: an empty grid still leaves the other
\* axes of the intermediate arrays to be filled
Axis(n) == IF n = 0 THEN 1 ELSE n

\* the size of the arrays a tau call fills: one cell for each point of the
\* grids its routine reads and each frequency
Cells(nu) ==
  IF target.kind = SphericalShellBLR
  THEN Len(nu) * Axis(Len(l)) * Axis(Len(phi)) * Axis(Len(mu))
  ELSE IF target.kind = SSDisk
  THEN Len(nu) * Axis(Len(l)) * Axis(Len(phi)) * target.mu_size
  ELSE IF target.kind = RingDustTorus
  THEN Len(nu) * Axis(Len(l)) * Axis(Len(phi))
  ELSE 0

\* the outcomes a call tau(nu) can have: one for each content of the
\* memory np.empty hands out
tau_results(nu) ==
  UNION {{tau_call(nu, empty, cells) : empty \in Uninitialised(Len(nu))} :
           cells \in {IF target.kind = SSDisk THEN disk_cells(nu) ELSE <<>>}}

\* tau(nu) on the engine
tau_of(nu) ==
  /\ Cells(nu) <= MaxCells
  /\ \E out \in tau_results(nu) :
       /\ ret' = out.ret
       /\ called' = out.called
       /\ stdout' = out.stdout
  /\ op' = "tau"
  /\ arg' = nu
  /\ UNCHANGED <<engine, s_in, sigma_out, wrappers>>

tau ==
  \E nu \in SeqsUpTo(NuValues, MaxNu) :
    tau_of(nu) /\ UNCHANGED previous

\* tau(nu), the caller keeping the frequencies, the grids the engine held and
\* what the call gave
tau_remembered ==
  \E nu \in SeqsUpTo(NuValues, MaxNu) :
    /\ tau_of(nu)
    /\ previous' = [nu |-> nu, mu |-> mu, phi |-> phi, l |-> l, ret |-> ret']

Next == set_mu(SetterArgs) \/ set_phi(SetterArgs) \/ set_l(SetterArgs) \/ tau

Spec == Init /\ [][Next]_vars

(***************************************************************************)
(* Engines on a disk or a ring, the caller comparing each tau call with    *)
(* the one before.                                                         *)
(***************************************************************************)
InitMu == Init /\ target.kind \in {SSDisk, RingDustTorus}

\* the counts that give a grid the routines can integrate over
GridArgs == {<<n>> : n \in 2..MaxSize}

NextMu ==
  set_mu(SetterArgs) \/ set_phi(GridArgs) \/ set_l(GridArgs) \/ tau_remembered

SpecMu == InitMu /\ [][NextMu]_vars

(***************************************************************************)
(* The setters alone, called with any count.                               *)
(***************************************************************************)
NextSetters == set_mu(AnyArgs) \/ set_phi(AnyArgs) \/ set_l(AnyArgs)

SpecSetters == Init /\ [][NextSetters]_vars

(***************************************************************************)
(* The cross section alone, applied to arrays of values of s.              *)
(***************************************************************************)
\* values of s (scale Q): nan, negative, zero, below, at and above the
\* threshold, and so large that beta_cm rounds to 1
SValues == {NaN, -50, 0, 50, 100, 150, 2000000}

InitSigma ==
  /\ blob \in Blobs
  /\ target = OtherTarget
  /\ r = 1
  /\ mu_size = mu_size_param(<<>>)
  /\ mu = mu_grid(mu_size)
  /\ phi_size = phi_size_param(<<>>)
  /\ phi = phi_grid(phi_size)
  /\ l_size = l_size_param(<<>>)
  /\ l = l_grid(r, l_size)
  /\ op = "__init__"
  /\ arg = <<>>
  /\ ret = None
  /\ called = <<>>
  /\ stdout = 0
  /\ s_in \in SeqsUpTo(SValues, MaxS)
  /\ sigma_out = <<>>
  /\ blr_vars = <<>>
  /\ dt_vars = <<>>
  /\ model = NoModel
  /\ blob_vars = <<>>
  /\ n_e_vars = <<>>
  /\ parameters = <<>>
  /\ previous = NoTau

\* values = sigma(s): s_in is the caller's array after the call
sigma_call ==
  /\ op = "__init__"
  /\ sigma_out' = sigma(s_in)
  /\ s_in' = s_in
  /\ op' = "sigma"
  /\ UNCHANGED <<engine, arg, ret, called, stdout, wrappers, previous>>

NextSigma == sigma_call

SpecSigma == InitSigma /\ [][NextSigma]_vars

(***************************************************************************)
(* wrappers/gammapy.py: the parameters of the two external Compton targets. *)
(* An object is its __dict__: the sequence of its attributes in insertion  *)
(* order.  vars(obj) is that very dictionary, so a pop removes the         *)
(* attribute from the object the caller holds.                             *)
(***************************************************************************)
Attr(n, v) == [name |-> n, value |-> v]

\* name in d
Has(d, k) == \E i \in 1..Len(d) : d[i].name = k

\* d[name]
Get(d, k) == d[CHOOSE i \in 1..Len(d) : d[i].name = k].value

\* d.pop(name) on a dictionary holding the key
Pop(d, k) == SelectSeq(d, LAMBDA a : a.name # k)

\* the d.pop(name) statements one after the other: the first missing key
\* raises KeyError and the keys popped before it stay removed
RECURSIVE pop_all(_, _)
pop_all(d, keys) ==
  IF keys = <<>> THEN [kind |-> "None", dict |-> d]
  ELSE IF ~Has(d, Head(keys)) THEN [kind |-> "KeyError", dict |-> d]
  ELSE pop_all(Pop(d, Head(keys)), Tail(keys))

\* u.isclose(a, b): |a - b| <= atol + rtol * |b| with rtol = 1e-5, atol = 0
\* (on whole numbers, |a - b| <= floor(|b| / 1e5))
isclose_rtol_inverse == 100000
isclose(a, b) == Abs(a - b) <= Abs(b) \div isclose_rtol_inverse

\* a float literal m * 10^e with one significant digit m in 0..9
Float(m, e) == [m |-> m, e |-> e]

\* float("nan"): what Parameter gives min and max when none is passed
nan == [m |-> NaN, e |-> 0]

\* a <= b on non-negative floats; every comparison with nan is False
Leq(a, b) ==
  IF a.m = NaN \/ b.m = NaN THEN FALSE
  ELSE IF a.m = 0 THEN TRUE
  ELSE IF b.m = 0 THEN FALSE
  ELSE a.e < b.e \/ (a.e = b.e /\ a.m <= b.m)

\* Parameter(name, value): no range, free, scaled by powers of ten,
\* interpolated linearly, not a norm
Parameter(n, v) ==
  [name |-> n, value |-> v, min |-> nan, max |-> nan, frozen |-> FALSE,
   scale_method |-> "scale10", interp |-> "lin", is_norm |-> FALSE]

\* parameter.name.startswith("gamma") and parameter.name.startswith("p") on
\* the names of the attributes of the electron distributions
StartsWithGamma == {"gamma_min", "gamma_max", "gamma_b"}
StartsWithP == {"p", "p1", "p2"}

\* the body of the loop of set_spectral_pars_ranges_scales on one parameter
set_spectral_par(par) ==
  LET a == IF par.name = "k_e"
           THEN [par EXCEPT !.min = Float(1, 0), !.max = Float(1, 9),
                            !.scale_method = "scale10", !.interp = "log",
                            !.is_norm = TRUE]
           ELSE par
      b == IF a.name \in StartsWithGamma
           THEN [a EXCEPT !.scale_method = "scale10", !.interp = "log"]
           ELSE a
      c == IF b.name = "gamma_min"
           THEN [b EXCEPT !.min = Float(1, 0), !.max = Float(1, 3), !.frozen = TRUE]
           ELSE b
      d == IF c.name = "gamma_max"
           THEN [c EXCEPT !.min = Float(1, 4), !.max = Float(1, 8), !.frozen = TRUE]
           ELSE c
  IN IF d.name \in StartsWithP
     THEN [d EXCEPT !.min = Float(1, 0), !.max = Float(5, 0),
                    !.scale_method = "factor1", !.interp = "lin"]
     ELSE d

set_spectral_pars_ranges_scales(pars) ==
  [i \in 1..Len(pars) |-> set_spectral_par(pars[i])]

\* z_min = 0.001, z_max = 10
z_min == Float(1, -3)
z_max == Float(1, 1)

\* the body of the loop of set_emission_region_pars_ranges_scales
set_emission_region_par(par) ==
  CASE par.name = "z" ->
         [par EXCEPT !.min = z_min, !.max = z_max, !.frozen = TRUE]
    [] par.name = "d_L" ->
         \* the luminosity distances at z_min and z_max in cm, to one digit
         [par EXCEPT !.min = Float(1, 25), !.max = Float(3, 29), !.frozen = TRUE]
    [] par.name = "delta_D" ->
         [par EXCEPT !.min = Float(1, 0), !.max = Float(1, 2),
                     !.scale_method = "factor1", !.interp = "lin"]
    [] par.name = "B" ->
         [par EXCEPT !.min = Float(1, -4), !.max = Float(1, 3),
                     !.scale_method = "scale10", !.interp = "log"]
    [] par.name = "R_b" ->
         [par EXCEPT !.min = Float(1, 12), !.max = Float(1, 18),
                     !.scale_method = "scale10", !.interp = "log"]
    [] par.name = "mu_s" ->
         [par EXCEPT !.min = Float(0, 0), !.max = Float(1, 0), !.frozen = TRUE]
    [] par.name = "r" ->
         [par EXCEPT !.min = Float(1, 16), !.max = Float(1, 20),
                     !.scale_method = "scale10", !.interp = "log"]
    [] OTHER -> par

set_emission_region_pars_ranges_scales(pars) ==
  [i \in 1..Len(pars) |-> set_emission_region_par(pars[i])]

\* the range set_targets_pars_ranges_scales gives epsilon_dt
epsilon_dt_range(par) ==
  [par EXCEPT !.min = Float(1, -6), !.max = Float(1, -8), !.frozen = TRUE]

\* the body of the loop of set_targets_pars_ranges_scales
set_targets_par(par) ==
  CASE par.name = "L_disk" ->
         [par EXCEPT !.min = Float(1, 42), !.max = Float(1, 48), !.frozen = TRUE]
    [] par.name = "xi_line" ->
         [par EXCEPT !.min = Float(1, -3), !.max = Float(1, 0), !.frozen = TRUE]
    [] par.name = "epsilon_line" ->
         [par EXCEPT !.min = Float(1, -7), !.max = Float(1, -4), !.frozen = TRUE]
    [] par.name = "R_line" ->
         [par EXCEPT !.min = Float(1, 15), !.max = Float(1, 18), !.frozen = TRUE]
    [] par.name = "xi_dt" ->
         [par EXCEPT !.min = Float(1, -3), !.max = Float(1, 0), !.frozen = TRUE]
    [] par.name = "epsilon_dt" -> epsilon_dt_range(par)
    [] par.name = "R_dt" ->
         [par EXCEPT !.min = Float(1, 17), !.max = Float(1, 21), !.frozen = TRUE]
    [] OTHER -> par

set_targets_pars_ranges_scales(pars) ==
  [i \in 1..Len(pars) |-> set_targets_par(pars[i])]

\* the attributes a SphericalShellBLR holds, in the order they are set;
\* the strings name and line are numbered 1
BLR(L_disk) ==
  <<Attr("name", 1), Attr("L_disk", L_disk), Attr("xi_line", 10),
    Attr("line", 1), Attr("lambda_line", 1216), Attr("epsilon_line", 2),
    Attr("R_line", 3)>>

\* the attributes a RingDustTorus holds, in the order they are set
DT(L_disk) ==
  <<Attr("name", 1), Attr("L_disk", L_disk), Attr("xi_dt", 20),
    Attr("T_dt", 1000), Attr("Theta", 17), Attr("epsilon_dt", 5),
    Attr("R_dt", 3)>>

\* the attributes popped from each dictionary
blr_popped == <<"name", "line", "lambda_line">>
dt_popped == <<"name", "L_disk", "T_dt", "Theta">>

\* disk luminosities (units of 1e39 erg / s): equal, within the relative
\* tolerance of u.isclose, just outside it, and far apart
LDiskValues == {999995, 1000000, 1000001, 1000011, 2000000}

\* the names and the parameters appended for the attributes left in d
names_of(d) == [i \in 1..Len(d) |-> d[i].name]
parameters_of(d) == [i \in 1..Len(d) |-> Parameter(d[i].name, d[i].value)]

\* return target_pars_names, target_pars
Returned(names, pars) == [kind |-> "value", val |-> [names |-> names, pars |-> pars]]

\* the body of get_blr_dt_parameters on the dictionaries of the two objects
\* it is handed: what it returns or raises, and the dictionaries it leaves
blr_dt_parameters(blr_, dt_) ==
  IF ~Has(blr_, "L_disk") \/ ~Has(dt_, "L_disk")
  THEN [ret |-> Raised("AttributeError"), blr |-> blr_, dt |-> dt_]
  ELSE IF ~isclose(Get(blr_, "L_disk"), Get(dt_, "L_disk"))
  THEN [ret |-> Raised("ValueError"), blr |-> blr_, dt |-> dt_]
  ELSE LET b == pop_all(blr_, blr_popped)
           d == pop_all(dt_, dt_popped)
       IN IF b.kind = "KeyError"
          THEN [ret |-> Raised("KeyError"), blr |-> b.dict, dt |-> dt_]
          ELSE IF d.kind = "KeyError"
          THEN [ret |-> Raised("KeyError"), blr |-> b.dict, dt |-> d.dict]
          ELSE [ret |-> Returned(names_of(b.dict) \o names_of(d.dict),
                                 parameters_of(b.dict) \o parameters_of(d.dict)),
                blr |-> b.dict, dt |-> d.dict]

\* get_blr_dt_parameters(blr, dt) on the caller's two targets
get_blr_dt_parameters ==
  /\ op' = "get_blr_dt_parameters"
  /\ arg' = <<>>
  /\ NoCall
  /\ \E res \in {blr_dt_parameters(blr_vars, dt_vars)} :
       /\ ret' = res.ret
       /\ blr_vars' = res.blr
       /\ dt_vars' = res.dt
  /\ UNCHANGED <<engine, s_in, sigma_out, model, blob_vars, n_e_vars, parameters, previous>>

\* the caller builds a new BLR and hands it over from now on
new_blr ==
  \E L_disk \in LDiskValues :
    /\ blr_vars' = BLR(L_disk)
    /\ op' = "SphericalShellBLR"
    /\ arg' = <<L_disk>>
    /\ ret' = None
    /\ NoCall
    /\ UNCHANGED <<engine, s_in, sigma_out, dt_vars, model, blob_vars, n_e_vars, parameters, previous>>

\* the caller builds a new DT and hands it over from now on
new_dt ==
  \E L_disk \in LDiskValues :
    /\ dt_vars' = DT(L_disk)
    /\ op' = "RingDustTorus"
    /\ arg' = <<L_disk>>
    /\ ret' = None
    /\ NoCall
    /\ UNCHANGED <<engine, s_in, sigma_out, blr_vars, model, blob_vars, n_e_vars, parameters, previous>>

\* a BLR and a DT as their constructors leave them
InitTargets ==
  /\ blob \in Blobs
  /\ target = OtherTarget
  /\ r = 1
  /\ mu_size = mu_size_param(<<>>)
  /\ mu = mu_grid(mu_size)
  /\ phi_size = phi_size_param(<<>>)
  /\ phi = phi_grid(phi_size)
  /\ l_size = l_size_param(<<>>)
  /\ l = l_grid(r, l_size)
  /\ op = "__init__"
  /\ arg = <<>>
  /\ ret = None
  /\ called = <<>>
  /\ stdout = 0
  /\ s_in = <<>>
  /\ sigma_out = <<>>
  /\ \E L_disk \in LDiskValues : blr_vars = BLR(L_disk)
  /\ \E L_disk \in LDiskValues : dt_vars = DT(L_disk)
  /\ model = NoModel
  /\ blob_vars = <<>>
  /\ n_e_vars = <<>>
  /\ parameters = <<>>
  /\ previous = NoTau

NextTargets == get_blr_dt_parameters \/ new_blr \/ new_dt

SpecTargets == InitTargets /\ [][NextTargets]_vars

(***************************************************************************)
(* wrappers/gammapy.py: the two spectral models built from a blob and the  *)
(* targets.  The blob holds a reference to its electron distribution:      *)
(* n_e_vars is the dictionary of that one object, whoever refers to it.    *)
(***************************************************************************)
\* the attributes of the electron distributions, in the order they are set
PowerLaw ==
  <<Attr("k_e", 1), Attr("p", 2), Attr("gamma_min", 1), Attr("gamma_max", 7),
    Attr("integrator", 1)>>

BrokenPowerLaw ==
  <<Attr("k_e", 1), Attr("p1", 2), Attr("p2", 3), Attr("gamma_b", 3),
    Attr("gamma_min", 1), Attr("gamma_max", 7), Attr("integrator", 1)>>

\* the attributes of a Blob the wrappers read; n_e refers to the electron
\* distribution
BlobAttributes ==
  <<Attr("z", 1), Attr("d_L", 27), Attr("delta_D", 10), Attr("B", 1),
    Attr("R_b", 16), Attr("mu_s", 1), Attr("n_e", 1)>>

\* copy.copy(obj): a new object whose dictionary binds the same names to the
\* same objects; an attribute that is a reference still refers to the
\* original's object
copy(obj) == [i \in 1..Len(obj) |-> Attr(obj[i].name, obj[i].value)]

\* get_spectral_parameters_from_blob(blob): pars = vars(blob.n_e) is the
\* dictionary of the electron distribution the blob refers to
get_spectral_parameters_from_blob(n_e) ==
  LET popped == pop_all(n_e, <<"integrator">>)
  IN [kind |-> popped.kind, n_e |-> popped.dict,
      names |-> names_of(popped.dict), pars |-> parameters_of(popped.dict)]

\* get_emission_region_parameters_from_names(parameters_names, blob)
get_emission_region_parameters_from_names(parameters_names, blob_) ==
  IF \A i \in 1..Len(parameters_names) : Has(blob_, parameters_names[i])
  THEN [kind |-> "None",
        pars |-> [i \in 1..Len(parameters_names) |->
                    Parameter(parameters_names[i], Get(blob_, parameters_names[i]))]]
  ELSE [kind |-> "AttributeError", pars |-> <<>>]

\* SynchrotronSelfComptonSpectralModel(blob, ssa)
SynchrotronSelfComptonSpectralModel_init ==
  \E ssa \in BOOLEAN :
    \E _blob \in {copy(blob_vars)} :
      \E s \in {get_spectral_parameters_from_blob(n_e_vars)} :
        \E er \in {get_emission_region_parameters_from_names(
                     <<"z", "d_L", "delta_D", "B", "R_b">>, _blob)} :
          /\ op' = "SynchrotronSelfComptonSpectralModel"
          /\ arg' = <<ssa>>
          /\ NoCall
          /\ n_e_vars' = s.n_e
          /\ IF s.kind # "None" THEN ret' = Raised(s.kind)
             ELSE IF er.kind # "None" THEN ret' = Raised(er.kind)
             ELSE ret' = [kind |-> "model", val |->
                         [_blob |-> _blob, ssa |-> ssa,
                                default_parameters |->
                                  set_emission_region_pars_ranges_scales(
                                    set_spectral_pars_ranges_scales(s.pars \o er.pars))]]
          /\ UNCHANGED <<engine, s_in, sigma_out, blob_vars, blr_vars, dt_vars,
                         model, parameters, previous>>

\* ExternalComptonSpectralModel(blob, blr, dt, r, ssa, ec_blr)
ExternalComptonSpectralModel_wrapper_init ==
  \E r_ \in RValues, ssa \in BOOLEAN, ec_blr \in BOOLEAN :
    \E _blob \in {copy(blob_vars)}, _blr \in {copy(blr_vars)}, _dt \in {copy(dt_vars)} :
      \E s \in {get_spectral_parameters_from_blob(n_e_vars)} :
        \E er \in {get_emission_region_parameters_from_names(
                     <<"z", "d_L", "delta_D", "B", "R_b", "mu_s">>, _blob)} :
          \E tg \in {blr_dt_parameters(_blr, _dt)} :
            /\ op' = "ExternalComptonSpectralModel"
            /\ arg' = <<r_, ssa, ec_blr>>
            /\ NoCall
            /\ n_e_vars' = s.n_e
            /\ IF s.kind # "None" THEN ret' = Raised(s.kind)
               ELSE IF er.kind # "None" THEN ret' = Raised(er.kind)
               ELSE IF tg.ret.kind # "value" THEN ret' = tg.ret
               ELSE ret' = [kind |-> "model", val |->
                           [_blob |-> _blob, _blr |-> tg.blr, _dt |-> tg.dt,
                                  ssa |-> ssa, ec_blr |-> ec_blr,
                                  default_parameters |->
                                    set_targets_pars_ranges_scales(
                                      set_emission_region_pars_ranges_scales(
                                        set_spectral_pars_ranges_scales(
                                          s.pars \o er.pars
                                            \o <<Parameter("r", r_)>>
                                            \o tg.ret.val.pars)))]]
            /\ UNCHANGED <<engine, s_in, sigma_out, blob_vars, blr_vars, dt_vars,
                           model, parameters, previous>>

\* a blob with its electron distribution, a BLR and a DT as their
\* constructors leave them
InitModels ==
  /\ blob \in Blobs
  /\ target = OtherTarget
  /\ r = 1
  /\ mu_size = mu_size_param(<<>>)
  /\ mu = mu_grid(mu_size)
  /\ phi_size = phi_size_param(<<>>)
  /\ phi = phi_grid(phi_size)
  /\ l_size = l_size_param(<<>>)
  /\ l = l_grid(r, l_size)
  /\ op = "__init__"
  /\ arg = <<>>
  /\ ret = None
  /\ called = <<>>
  /\ stdout = 0
  /\ s_in = <<>>
  /\ sigma_out = <<>>
  /\ \E L_disk \in LDiskValues : blr_vars = BLR(L_disk)
  /\ \E L_disk \in LDiskValues : dt_vars = DT(L_disk)
  /\ model = NoModel
  /\ blob_vars = BlobAttributes
  /\ n_e_vars \in {PowerLaw, BrokenPowerLaw}
  /\ parameters = <<>>
  /\ previous = NoTau

NextModels ==
  SynchrotronSelfComptonSpectralModel_init \/ ExternalComptonSpectralModel_wrapper_init

SpecModels == InitModels /\ [][NextModels]_vars

(***************************************************************************)
(* wrappers/gammapy.py: the three functions that set ranges and scales,    *)
(* applied in any order to a list of parameters.                           *)
(***************************************************************************)
\* key in a list of strings
In(key, list) == \E i \in 1..Len(list) : list[i] = key

\* the names of the parameters of the two models, and norm, which none of
\* the three functions handles
ParNames ==
  {"k_e", "p", "p1", "p2", "gamma_b", "gamma_min", "gamma_max",
   "z", "d_L", "delta_D", "B", "R_b", "mu_s", "r",
   "L_disk", "xi_line", "epsilon_line", "R_line",
   "xi_dt", "epsilon_dt", "R_dt", "norm"}

\* the functions applied so far, f included
Applied(f) == IF In(f, called) THEN called ELSE Append(called, f)

\* set_spectral_pars_ranges_scales(parameters)
set_spectral_pars_ranges_scales_call ==
  /\ parameters' = set_spectral_pars_ranges_scales(parameters)
  /\ op' = "set_spectral_pars_ranges_scales"
  /\ called' = Applied("set_spectral_pars_ranges_scales")
  /\ arg' = <<>>
  /\ ret' = None
  /\ stdout' = 0
  /\ UNCHANGED <<engine, s_in, sigma_out, blr_vars, dt_vars, model, blob_vars,
                 n_e_vars, previous>>

\* set_emission_region_pars_ranges_scales(parameters)
set_emission_region_pars_ranges_scales_call ==
  /\ parameters' = set_emission_region_pars_ranges_scales(parameters)
  /\ op' = "set_emission_region_pars_ranges_scales"
  /\ called' = Applied("set_emission_region_pars_ranges_scales")
  /\ arg' = <<>>
  /\ ret' = None
  /\ stdout' = 0
  /\ UNCHANGED <<engine, s_in, sigma_out, blr_vars, dt_vars, model, blob_vars,
                 n_e_vars, previous>>

\* set_targets_pars_ranges_scales(parameters)
set_targets_pars_ranges_scales_call ==
  /\ parameters' = set_targets_pars_ranges_scales(parameters)
  /\ op' = "set_targets_pars_ranges_scales"
  /\ called' = Applied("set_targets_pars_ranges_scales")
  /\ arg' = <<>>
  /\ ret' = None
  /\ stdout' = 0
  /\ UNCHANGED <<engine, s_in, sigma_out, blr_vars, dt_vars, model, blob_vars,
                 n_e_vars, previous>>

\* a list of parameters as Parameter makes them
InitRanges ==
  /\ blob \in Blobs
  /\ target = OtherTarget
  /\ r = 1
  /\ mu_size = mu_size_param(<<>>)
  /\ mu = mu_grid(mu_size)
  /\ phi_size = phi_size_param(<<>>)
  /\ phi = phi_grid(phi_size)
  /\ l_size = l_size_param(<<>>)
  /\ l = l_grid(r, l_size)
  /\ op = "__init__"
  /\ arg = <<>>
  /\ ret = None
  /\ called = <<>>
  /\ stdout = 0
  /\ s_in = <<>>
  /\ sigma_out = <<>>
  /\ blr_vars = <<>>
  /\ dt_vars = <<>>
  /\ model = NoModel
  /\ blob_vars = <<>>
  /\ n_e_vars = <<>>
  /\ \E names \in SeqsUpTo(ParNames, MaxPars) :
       parameters = [i \in 1..Len(names) |-> Parameter(names[i], 1)]
  /\ previous = NoTau

NextRanges ==
  \/ set_spectral_pars_ranges_scales_call
  \/ set_emission_region_pars_ranges_scales_call
  \/ set_targets_pars_ranges_scales_call

SpecRanges == InitRanges /\ [][NextRanges]_vars

(***************************************************************************)
(* fit/gammapy_wrapper.py: ExternalComptonSpectralModel.  The SED is the   *)
(* sequence of the components summed into it, in the order they are added; *)
(* the array evaluate returns holds one such sum per energy.               *)
(***************************************************************************)
\* the strings a caller may put in the list of targets
TargetNames == {"blr", "dt", "disk"}

\* the names of the targets parameters: the disk's always, those of the BLR
\* and of the DT when the target is listed
disk_pars_names == <<"L_disk", "M_BH", "m_dot", "R_in", "R_out">>
blr_pars_names == <<"xi_line", "lambda_line", "R_line">>
dt_pars_names == <<"xi_dt", "T_dt", "R_dt">>

get_targets_parameters(targets) ==
  disk_pars_names
    \o (IF In("blr", targets) THEN blr_pars_names ELSE <<>>)
    \o (IF In("dt", targets) THEN dt_pars_names ELSE <<>>)

\* kwargs[key] for every key of names: KeyError when one is missing
sort_parameters(names, kwargs) ==
  IF \A i \in 1..Len(names) : In(names[i], kwargs) THEN "None" ELSE "KeyError"

\* ExternalComptonSpectralModel(n_e, targets, ssa)
ExternalComptonSpectralModel_init ==
  \E targets \in {<<>>} \cup SeqsUpTo(TargetNames, MaxTargets), ssa \in BOOLEAN :
    /\ model' = [targets |-> targets, ssa |-> ssa,
                 pars |-> get_targets_parameters(targets)]
    /\ op' = "ExternalComptonSpectralModel"
    /\ arg' = <<>>
    /\ ret' = None
    /\ NoCall
    /\ UNCHANGED <<engine, s_in, sigma_out, blr_vars, dt_vars, blob_vars, n_e_vars, parameters, previous>>

\* the sum evaluate builds with a disk thermal component that is added
\* only when "disk" is listed
evaluate_sed_disk_if_listed(targets) ==
  <<"sed_synch", "sed_ssc">>
    \o (IF In("disk", targets) THEN <<"sed_bb_disk">> ELSE <<>>)
    \o (IF In("blr", targets) THEN <<"sed_ec_blr">> ELSE <<>>)
    \o (IF In("dt", targets) THEN <<"sed_ec_dt", "sed_bb_dt">> ELSE <<>>)

\* sed = sed_synch + sed_ssc; sed += sed_bb_disk; sed += sed_ec_blr if "blr"
\* is listed; sed += sed_ec_dt and sed += sed_bb_dt if "dt" is listed
evaluate_sed(targets) ==
  <<"sed_synch", "sed_ssc">>
    \o <<"sed_bb_disk">>
    \o (IF In("blr", targets) THEN <<"sed_ec_blr">> ELSE <<>>)
    \o (IF In("dt", targets) THEN <<"sed_ec_dt", "sed_bb_dt">> ELSE <<>>)

\* model.evaluate(energy, **kwargs), kwargs being the model's parameters
evaluate ==
  \E energy \in SeqsUpTo(NuValues, MaxNu) :
    /\ model # NoModel
    /\ op' = "evaluate"
    /\ arg' = energy
    /\ stdout' = 0
    /\ IF sort_parameters(disk_pars_names, model.pars) = "KeyError"
       THEN /\ ret' = Raised("KeyError")
            /\ called' = <<"sed_synch", "sed_ssc">>
       ELSE IF /\ In("blr", model.targets)
               /\ sort_parameters(blr_pars_names, model.pars) = "KeyError"
       THEN /\ ret' = Raised("KeyError")
            /\ called' = <<"sed_synch", "sed_ssc", "sed_bb_disk">>
       ELSE IF /\ In("dt", model.targets)
               /\ sort_parameters(dt_pars_names, model.pars) = "KeyError"
       THEN /\ ret' = Raised("KeyError")
            /\ called' = SubSeq(evaluate_sed(model.targets), 1,
                                 Len(evaluate_sed(model.targets)) - 2)
       ELSE /\ called' = evaluate_sed(model.targets)
            /\ ret' = Array([i \in 1..Len(energy) |-> evaluate_sed(model.targets)])
    /\ UNCHANGED <<engine, s_in, sigma_out, wrappers, previous>>

InitFit ==
  /\ blob \in Blobs
  /\ target = OtherTarget
  /\ r = 1
  /\ mu_size = mu_size_param(<<>>)
  /\ mu = mu_grid(mu_size)
  /\ phi_size = phi_size_param(<<>>)
  /\ phi = phi_grid(phi_size)
  /\ l_size = l_size_param(<<>>)
  /\ l = l_grid(r, l_size)
  /\ op = "__init__"
  /\ arg = <<>>
  /\ ret = None
  /\ called = <<>>
  /\ stdout = 0
  /\ s_in = <<>>
  /\ sigma_out = <<>>
  /\ blr_vars = <<>>
  /\ dt_vars = <<>>
  /\ model = NoModel
  /\ blob_vars = <<>>
  /\ n_e_vars = <<>>
  /\ parameters = <<>>
  /\ previous = NoTau

NextFit == ExternalComptonSpectralModel_init \/ evaluate

SpecFit == InitFit /\ [][NextFit]_vars

(***************************************************************************)
(* The properties.                                                         *)
(***************************************************************************)
\* the target classes tau tests for
Supported == {SSDisk, SphericalShellBLR, RingDustTorus}

\* C1: for a disk, shell or ring target and a non-empty frequency array of
\* length N, tau returns an array of exactly N values, and the value at
\* position i is the one tau computes for the i-th frequency; stated for
\* grids of two or more samples
C1_tau_returns_one_value_per_frequency ==
  (/\ op = "tau"
   /\ target.kind \in Supported
   /\ Len(mu) >= 2 /\ Len(phi) >= 2 /\ Len(l) >= 2) =>
    /\ ret.kind = "array"
    /\ Len(ret.val) = Len(arg)
    /\ \A i \in 1..Len(arg) :
         \E o \in tau_results(<<arg[i]>>) :
           o.ret.kind = "array" /\ o.ret.val = <<ret.val[i]>>

\* C2: tau on an engine whose target is none of the three supported classes
\* ends in an error and never returns a value, None included
C2_unsupported_target_is_fatal ==
  (op = "tau" /\ target.kind \notin Supported) =>
    ret.kind \notin {"None", "array"}

\* C3: a tau call runs exactly one integrand routine, the one of the class of
\* the target: _opacity_disk for a disk, _opacity_shell_blr for a shell,
\* _opacity_ring_torus for a ring; it runs no routine of another class
C3_tau_routes_to_the_matching_routine ==
  op = "tau" =>
    /\ target.kind = SSDisk => called = <<"_opacity_disk">>
    /\ target.kind = SphericalShellBLR => called = <<"_opacity_shell_blr">>
    /\ target.kind = RingDustTorus => called = <<"_opacity_ring_torus">>
    /\ target.kind \notin Supported => called = <<>>

C3_witness ==
  /\ op = "tau"
  /\ target.kind = RingDustTorus
  /\ called = <<"_opacity_ring_torus">>
  /\ ret.kind = "array"

\* C4: sigma returns an array of the shape of its input that is exactly 0 at
\* every element with s < 1, whatever the other elements are
C4_sigma_is_zero_below_threshold ==
  op = "sigma" =>
    /\ DOMAIN sigma_out = DOMAIN s_in
    /\ \A k \in DOMAIN s_in :
         (s_in[k] # NaN /\ s_in[k] < 1 * Q) => sigma_out[k] = 0

C4_witness ==
  /\ op = "sigma"
  /\ \E j, k \in DOMAIN s_in :
       /\ s_in[j] # NaN /\ s_in[j] < 1 * Q /\ sigma_out[j] = 0
       /\ s_in[k] > 1 * Q /\ sigma_out[k] > 0

\* C5: every value tau returns is non-negative, for every grid configuration
\* the setters can leave and every distance r, those beyond the upper end of
\* the path-length grid included; stated for the shell and the ring, whose
\* routines write every value they return
C5_tau_is_non_negative ==
  (op = "tau" /\ target.kind \in {SphericalShellBLR, RingDustTorus}) =>
    \A i \in 1..Len(ret.val) : ret.val[i] >= 0

\* C6: after construction and any setter calls with any counts, the
\* path-length grid starts at the distance r of the blob and is strictly
\* increasing
C6_l_starts_at_r_and_increases ==
  /\ Len(l) >= 1
  /\ l[1] = r
  /\ \A k \in 1..(Len(l) - 1) : l[k] < l[k + 1]

\* C7 as stated: after construction and any setter calls with any counts, mu
\* has first sample -1 and last sample 1, phi has first sample 0 and last
\* sample 2 pi
C7_grids_span_their_ranges ==
  /\ Len(mu) >= 1 /\ mu[1] = -1 * Q /\ mu[Len(mu)] = 1 * Q
  /\ Len(phi) >= 1 /\ phi[1] = 0 /\ phi[Len(phi)] = 2 * Pi

\* C7, amended: after construction and any setter calls with any counts, a
\* grid of two or more samples spans its range (mu from -1 to 1, phi from 0
\* to 2 pi); a grid of one sample holds the lower end alone
C7_grids_of_two_samples_span_their_ranges ==
  /\ Len(mu) >= 2 => (mu[1] = -1 * Q /\ mu[Len(mu)] = 1 * Q)
  /\ Len(phi) >= 2 => (phi[1] = 0 /\ phi[Len(phi)] = 2 * Pi)
  /\ Len(mu) = 1 => mu = <<-1 * Q>>
  /\ Len(phi) = 1 => phi = <<0>>

C7_witness ==
  /\ op = "set_phi"
  /\ Len(phi) >= 2 /\ Len(phi) < 50
  /\ Len(mu) >= 2 /\ Len(mu) < 100

\* C8: right after construction the engine holds 100 cosine samples, 50
\* azimuth samples and 10 path-length samples, the last one at 3000 pc; a
\* setter called with no argument gives its grid that count again
C8_default_sample_counts ==
  /\ op = "__init__" =>
       /\ mu_size = 100 /\ Len(mu) = 100
       /\ phi_size = 50 /\ Len(phi) = 50
       /\ l_size = 10 /\ Len(l) = 10
       /\ l[10] * PcPerLen = 3000
  /\ (op = "set_mu" /\ arg = <<>>) => (mu_size = 100 /\ Len(mu) = 100)
  /\ (op = "set_phi" /\ arg = <<>>) => (phi_size = 50 /\ Len(phi) = 50)
  /\ (op = "set_l" /\ arg = <<>>) =>
       (l_size = 10 /\ Len(l) = 10 /\ l[10] * PcPerLen = 3000)

C8_witness ==
  /\ op = "set_l"
  /\ arg = <<>>
  /\ Len(l) = 10
  /\ Len(mu) = 2
  /\ Len(phi) = 0

\* C9: a tau call leaves the grids, their sizes, r, the blob and the target
\* as they were, and two tau calls with the same frequencies and no setter
\* call in between return equal results; the results are compared for grids
\* of two or more samples
C9_tau_has_no_memory ==
  [][op' = "tau" =>
       /\ engine' = engine
       /\ (/\ op = "tau"
           /\ arg' = arg
           /\ Len(mu) >= 2 /\ Len(phi) >= 2 /\ Len(l) >= 2) => ret' = ret]_vars

\* C10 as stated: with everything else held fixed, a larger xi_line (shell)
\* or xi_dt (ring) gives a strictly larger tau at every frequency index, the
\* frequencies below the threshold included; stated for increasing grids of
\* two or more samples and values of tau that are no nan
C10_tau_strictly_increases_with_xi ==
  (/\ op = "tau"
   /\ target.kind \in {SphericalShellBLR, RingDustTorus}
   /\ Len(mu) >= 2 /\ Len(phi) >= 2 /\ Len(l) >= 2
   /\ l[1] < l[Len(l)]
   /\ \A i \in 1..Len(ret.val) : ret.val[i] # NaN) =>
    \A xi2 \in XiValues :
      LET shell == target.kind = SphericalShellBLR
          xi == IF shell THEN target.xi_line ELSE target.xi_dt
          other == IF shell
                   THEN opacity_shell_blr([target EXCEPT !.xi_line = xi2], arg)
                   ELSE opacity_ring_torus([target EXCEPT !.xi_dt = xi2], arg)
      IN xi2 > xi =>
           \A i \in 1..Len(arg) : other.ret.val[i] > ret.val[i]

\* C10, amended: with everything else held fixed, for a larger xi_line
\* (shell) or xi_dt (ring) a positive tau value becomes strictly larger, a
\* value of 0 (as at the frequencies below the threshold) stays 0, a negative
\* value becomes smaller and a nan stays nan
C10_tau_scales_with_xi ==
  (op = "tau" /\ target.kind \in {SphericalShellBLR, RingDustTorus}) =>
    \A xi2 \in XiValues :
      LET shell == target.kind = SphericalShellBLR
          xi == IF shell THEN target.xi_line ELSE target.xi_dt
          other == IF shell
                   THEN opacity_shell_blr([target EXCEPT !.xi_line = xi2], arg)
                   ELSE opacity_ring_torus([target EXCEPT !.xi_dt = xi2], arg)
      IN xi2 > xi =>
           \A i \in 1..Len(arg) :
             LET a == ret.val[i]
                 b == other.ret.val[i]
             IN /\ a = NaN => b = NaN
                /\ a = 0 => b = 0
                /\ a > 0 => b > a
                /\ (a # NaN /\ a < 0) => (b # NaN /\ b < a)

C10_witness ==
  /\ op = "tau"
  /\ target.kind = SphericalShellBLR
  /\ Len(l) >= 2 /\ l[1] < l[Len(l)]
  /\ \E xi2 \in XiValues : xi2 > target.xi_line
  /\ \E i, j \in 1..Len(arg) :
       /\ arg[i] = 1 /\ ret.val[i] = 0
       /\ ret.val[j] > 0

\* C11: for every s >= 1 sigma returns a non-negative value, and at s = 1 it
\* returns exactly 0
C11_sigma_is_non_negative_from_threshold ==
  op = "sigma" =>
    \A k \in DOMAIN s_in :
      (s_in[k] # NaN /\ s_in[k] >= 1 * Q) =>
        /\ sigma_out[k] # NaN
        /\ sigma_out[k] >= 0
        /\ s_in[k] = 1 * Q => sigma_out[k] = 0

\* C12: for a disk target and a path-length grid of two or more samples,
\* tau returns a result for every non-empty frequency array, whatever the
\* numbers N of frequencies and L of path lengths; no index error is raised
C12_disk_tau_completes ==
  (op = "tau" /\ target.kind = SSDisk /\ Len(l) >= 2) =>
    ret.kind = "array"

\* C13: the disk routine stores the integral over the angles for frequency i
\* and path length j in slot j, and the integral over the path lengths for
\* frequency i in output slot i, so that every output slot is written and
\* none is left as np.empty made it; stated for the calls that return
C13_disk_reduction_is_uniform ==
  (op = "tau" /\ target.kind = SSDisk /\ ret.kind = "array" /\ Len(l) >= 2) =>
    \A cells \in {disk_cells(arg)} :
      \A i \in 1..Len(arg) :
        ret.val[i] =
          Mul(prefactor_disk,
              trapz([j \in 1..Len(l) |-> cells[i, j]], l, 1), Q)

\* C14: the shell and ring routines integrate the broadcast integrand over
\* mu (shell only), then over phi, then over l, each step over the axis of
\* its variable and on the result of the step before, and what remains has
\* one axis, indexed by the frequency
C14_integrals_nest_in_fixed_order ==
  (op = "tau" /\ target.kind \in {SphericalShellBLR, RingDustTorus}) =>
    LET shell == target.kind = SphericalShellBLR
        pre == IF shell THEN prefactor_shell_blr(target)
               ELSE prefactor_ring_torus(target)
    IN \A f \in {IF shell THEN integrand_shell_blr(target, arg)
                 ELSE integrand_ring_torus(target, arg)} :
         LET over_mu(p, j, i) ==
               trapz([m \in 1..Len(mu) |-> f[m, p, j, i]], mu, Q)
             over_phi(j, i) ==
               IF shell
               THEN trapz([p \in 1..Len(phi) |-> over_mu(p, j, i)], phi, Rad)
               ELSE trapz([p \in 1..Len(phi) |-> f[p, j, i]], phi, Rad)
             over_l(i) == trapz([j \in 1..Len(l) |-> over_phi(j, i)], l, 1)
         IN /\ ret.kind = "array"
            /\ DOMAIN ret.val = 1..Len(arg)
            /\ \A i \in 1..Len(arg) : ret.val[i] = Mul(pre, over_l(i), Q)

C14_witness ==
  /\ op = "tau"
  /\ target.kind = SphericalShellBLR
  /\ Len(mu) = 2 /\ Len(phi) = 2 /\ Len(l) = 2
  /\ Len(arg) = 2
  /\ \E i \in 1..Len(arg) : ret.val[i] > 0

\* C15: a setter changes its own grid and size only: set_mu leaves phi,
\* phi_size, l, l_size, r, blob and target as they were, set_phi leaves mu,
\* mu_size, l, l_size, r, blob and target, set_l leaves mu, mu_size, phi,
\* phi_size, r, blob and target
C15_setters_change_their_own_grid ==
  [][/\ op' = "set_mu" =>
          UNCHANGED <<phi, phi_size, l, l_size, r, blob, target>>
     /\ op' = "set_phi" =>
          UNCHANGED <<mu, mu_size, l, l_size, r, blob, target>>
     /\ op' = "set_l" =>
          UNCHANGED <<mu, mu_size, phi, phi_size, r, blob, target>>]_vars

C15_witness ==
  /\ op = "set_phi"
  /\ arg = <<2>>
  /\ Len(phi) = 2
  /\ Len(mu) = 1
  /\ Len(l) = 0

\* C16: a tau call on a shell or ring target integrates over the grids the
\* most recent call of each setter stored (those of the construction if the
\* setter was never called): a setter call stores the grid of its count, and
\* at a tau call each grid is the one of the size last stored and the result
\* is the integral over these grids
C16_tau_uses_the_latest_grids ==
  /\ op = "set_mu" => (mu_size = mu_size_param(arg) /\ mu = mu_grid(mu_size))
  /\ op = "set_phi" =>
       (phi_size = phi_size_param(arg) /\ phi = phi_grid(phi_size))
  /\ op = "set_l" => (l_size = l_size_param(arg) /\ l = l_grid(r, l_size))
  /\ (op = "tau" /\ target.kind \in {SphericalShellBLR, RingDustTorus}) =>
       /\ mu = mu_grid(mu_size)
       /\ phi = phi_grid(phi_size)
       /\ l = l_grid(r, l_size)
       /\ Len(ret.val) = Len(arg)
       /\ ret = (IF target.kind = SphericalShellBLR
                 THEN opacity_shell_blr(target, arg)
                 ELSE opacity_ring_torus(target, arg)).ret

C16_witness ==
  /\ op = "tau"
  /\ target.kind = RingDustTorus
  /\ l_size = 2 /\ l = <<r, 30>>
  /\ phi_size = 2
  /\ \E i \in 1..Len(arg) : ret.val[i] > 0

\* C17: set_mu(0), set_phi(0) and set_l(0) return normally, and the next tau
\* call ends in an error raised by the integration instead of returning
\* values; stated for the shell, whose routine reads the three grids
C17_empty_grid_raises_in_tau ==
  /\ (op \in {"set_mu", "set_phi", "set_l"} /\ arg = <<0>>) => ret = None
  /\ (/\ op = "tau"
      /\ target.kind = SphericalShellBLR
      /\ (Len(mu) = 0 \/ Len(phi) = 0 \/ Len(l) = 0)) =>
       ret.kind \notin {"array", "None"}

\* C18: a tau call writes nothing to standard output, for each of the three
\* targets
C18_tau_prints_nothing ==
  (op = "tau" /\ target.kind \in Supported) => stdout = 0

\* C19: get_blr_dt_parameters called on a BLR and a DT that each hold a disk
\* luminosity raises ValueError when the two luminosities differ (are not
\* close), and then removes no attribute of either target; when they are
\* equal it returns the list of names and the list of parameters, of the
\* same length, in which L_disk occurs exactly once with the value of the BLR
C19_targets_parameters_or_value_error ==
  [][(/\ op' = "get_blr_dt_parameters"
      /\ Has(blr_vars, "L_disk")
      /\ Has(dt_vars, "L_disk")) =>
       IF ~isclose(Get(blr_vars, "L_disk"), Get(dt_vars, "L_disk"))
       THEN /\ ret'.kind = "ValueError"
            /\ UNCHANGED <<blr_vars, dt_vars>>
       ELSE /\ ret'.kind = "value"
            /\ Len(ret'.val.names) = Len(ret'.val.pars)
            /\ \A i \in 1..Len(ret'.val.names) :
                 ret'.val.pars[i].name = ret'.val.names[i]
            /\ Cardinality({i \in 1..Len(ret'.val.names) :
                              ret'.val.names[i] = "L_disk"}) = 1
            /\ \A i \in 1..Len(ret'.val.pars) :
                 ret'.val.pars[i].name = "L_disk" =>
                   ret'.val.pars[i].value = Get(blr_vars, "L_disk")]_vars

\* the number of times component c was added to the sum sed
Times(c, sed) == Cardinality({k \in 1..Len(sed) : sed[k] = c})

\* C20: evaluate of the fit wrapper's ExternalComptonSpectralModel returns
\* an SED to which every component was added at most once: synchrotron, SSC
\* and the disk thermal component always, the EC on BLR component if and
\* only if "blr" is among the model's targets, the EC on DT component and
\* the DT thermal component if and only if "dt" is among them
C20_each_component_added_once ==
  op = "evaluate" =>
    /\ ret.kind = "array"
    /\ Len(ret.val) = Len(arg)
    /\ \A i \in 1..Len(ret.val) :
         /\ Times("sed_synch", ret.val[i]) = 1
         /\ Times("sed_ssc", ret.val[i]) = 1
         /\ Times("sed_bb_disk", ret.val[i]) = 1
         /\ Times("sed_ec_blr", ret.val[i]) = (IF In("blr", model.targets) THEN 1 ELSE 0)
         /\ Times("sed_ec_dt", ret.val[i]) = (IF In("dt", model.targets) THEN 1 ELSE 0)
         /\ Times("sed_bb_dt", ret.val[i]) = (IF In("dt", model.targets) THEN 1 ELSE 0)
         /\ Len(ret.val[i]) = 3 + (IF In("blr", model.targets) THEN 1 ELSE 0)
                                + (IF In("dt", model.targets) THEN 2 ELSE 0)

\* evaluate returned the SED of a model that lists "blr" twice and no "dt":
\* the EC on BLR component is in the sum once, the DT components are not
C20_witness ==
  /\ op = "evaluate"
  /\ model.targets = <<"blr", "blr">>
  /\ ret.kind = "array"
  /\ Len(ret.val) = 2
  /\ ret.val[1] = <<"sed_synch", "sed_ssc", "sed_bb_disk", "sed_ec_blr">>

\* the constructors of the two spectral models of wrappers/gammapy.py
ModelConstructors ==
  {"SynchrotronSelfComptonSpectralModel", "ExternalComptonSpectralModel"}

\* C21: constructing a SynchrotronSelfComptonSpectralModel or an
\* ExternalComptonSpectralModel leaves every attribute of the caller's blob,
\* of its electron distribution, of the BLR and of the DT unchanged, and
\* every construction, whichever came before it on the same objects, ends
\* with a model (for the external Compton model, when the two disk
\* luminosities are close)
C21_constructing_models_changes_no_object ==
  [][op' \in ModelConstructors =>
       /\ UNCHANGED <<blob_vars, n_e_vars, blr_vars, dt_vars>>
       /\ (\/ op' = "SynchrotronSelfComptonSpectralModel"
           \/ isclose(Get(blr_vars, "L_disk"), Get(dt_vars, "L_disk"))) =>
            ret'.kind = "model"]_vars

\* each setter call leaves the grids its function of the grids before gives
SettersAreFunctions ==
  /\ op' = "set_mu" => Grids' = after_set_mu(Grids, arg')
  /\ op' = "set_phi" => Grids' = after_set_phi(Grids, arg')
  /\ op' = "set_l" => Grids' = after_set_l(Grids, arg')

\* calling a setter twice with the same count gives the grids one call gives
SettersAreIdempotent ==
  \A a \in AnyArgs :
    /\ after_set_mu(after_set_mu(Grids, a), a) = after_set_mu(Grids, a)
    /\ after_set_phi(after_set_phi(Grids, a), a) = after_set_phi(Grids, a)
    /\ after_set_l(after_set_l(Grids, a), a) = after_set_l(Grids, a)

\* two setters of different grids give the same grids in either order
SettersCommute ==
  \A a, b \in AnyArgs :
    /\ after_set_phi(after_set_mu(Grids, a), b) = after_set_mu(after_set_phi(Grids, b), a)
    /\ after_set_l(after_set_mu(Grids, a), b) = after_set_mu(after_set_l(Grids, b), a)
    /\ after_set_l(after_set_phi(Grids, a), b) = after_set_phi(after_set_l(Grids, b), a)

\* each stored size is the length of its grid
SizesAreLengths ==
  /\ mu_size = Len(mu)
  /\ phi_size = Len(phi)
  /\ l_size = Len(l)

\* C22: in every state reached by construction followed by any setter calls
\* each stored size equals the length of its grid (mu_size = len(mu),
\* phi_size = len(phi), l_size = len(l)), each setter is idempotent and
\* setters of different grids commute
C22_sizes_match_and_setters_commute ==
  [][/\ SizesAreLengths
     /\ SizesAreLengths'
     /\ SettersAreFunctions
     /\ SettersAreIdempotent
     /\ SettersCommute]_vars

\* C23: for a disk and for a ring target the result of tau is the same for
\* every value passed to set_mu: a tau call gives what the tau call before
\* it gave for the same frequencies when the phi and l grids are the same
\* and only the mu grid differs; stated for grids of two or more samples
C23_tau_ignores_mu_on_disk_and_ring ==
  [][(/\ op' = "tau"
      /\ target.kind \in {SSDisk, RingDustTorus}
      /\ previous # NoTau
      /\ previous.nu = arg'
      /\ previous.phi = phi
      /\ previous.l = l
      /\ previous.mu # mu
      /\ Len(phi) >= 2 /\ Len(l) >= 2
      /\ Len(mu) >= 2 /\ Len(previous.mu) >= 2) =>
       ret' = previous.ret]_vars

\* C24: after set_spectral_pars_ranges_scales,
\* set_emission_region_pars_ranges_scales and set_targets_pars_ranges_scales
\* have been applied to a list of parameters, every parameter whose range
\* they set has min <= max
C24_ranges_are_non_empty ==
  (/\ In("set_spectral_pars_ranges_scales", called)
   /\ In("set_emission_region_pars_ranges_scales", called)
   /\ In("set_targets_pars_ranges_scales", called)) =>
    \A i \in 1..Len(parameters) :
      (parameters[i].min # nan \/ parameters[i].max # nan) =>
        Leq(parameters[i].min, parameters[i].max)

====
